---- MODULE Spec2Model ----
(***************************************************************************)
(* Model of api_extend_aspect                                              *)
(* (ddtrace/appsec/iast/_taint_tracking/Aspects/AspectExtend.cpp), the     *)
(* IAST aspect that replaces bytearray.extend and propagates taint ranges. *)
(*                                                                         *)
(* Objects are identified by small integers (their identity in the         *)
(* Tainting Map).  Objects 1 and 2 are bytearrays; object 3 is a text      *)
(* object of another type (a str): it can carry taint ranges, but          *)
(* bytearray.extend rejects it with a TypeError.                           *)
(* Taint records live in a heap of records addressed by pointers; the      *)
(* Tainting Map maps an identity to a pointer (0 = no entry).              *)
(***************************************************************************)
EXTENDS Integers, Sequences, FiniteSets, TLC

VARIABLES
    content,     \* identity -> sequence of bytes
    origin,      \* ghost: identity -> per byte, the source it came from ("none" if untainted)
    ctx_active,  \* initializer->get_tainting_map() returns a map
    taint_map,   \* identity -> pointer of its TaintedObject (0 = no entry)
    heap,        \* pointer -> ranges of that TaintedObject
    result,      \* value returned by the last call: "init", "NULL" or "None"
    err,         \* Python error indicator left by the last call
    map_ops,     \* lookups + allocations + stores made by the last call
    calls,       \* number of well-shaped calls made
    last,        \* ghost: arguments and pre-state of the last call
    hist,        \* ghost: per destination, the additions of the calls made on it
    base         \* ghost: per identity, initial length and initial ranges

vars == <<content, origin, ctx_active, taint_map, heap, result, err, map_ops,
          calls, last, hist, base>>

(* ------------------------------ bounds --------------------------------- *)
MaxInitLen == 1
MaxCalls == 2

(* ------------------------------ objects -------------------------------- *)
\* operand counts a caller may pass
NargsTried == 0..3
Ids == {1, 2, 3}
ByteArrays == {1, 2}
SourceOf(i) == <<"s1", "s2", "s3">>[i]

\* Ranges that fit a buffer of length L, all from source src.
RangesIn(L, src) ==
    {r \in [start : 0..(L - 1), length : 1..L, source : {src}] :
        r.start + r.length <= L}

\* Records valid for a buffer of length L: ascending, non-overlapping ranges.
RecordsIn(L, src) ==
    {q \in UNION {[1..k -> RangesIn(L, src)] : k \in 0..L} :
        \A i \in 1..(Len(q) - 1) : q[i].start + q[i].length <= q[i + 1].start}

\* A buffer as it may exist before the first call: untracked, or tracked
\* with a record whose ranges lie inside it.
ObjInit(i) ==
    {[len |-> L, has |-> FALSE, ranges |-> <<>>] : L \in 0..MaxInitLen}
    \cup UNION {{[len |-> L, has |-> TRUE, ranges |-> r] :
                    r \in RecordsIn(L, SourceOf(i))} : L \in 0..MaxInitLen}

Covers(r, pos) == r.start <= pos /\ pos < r.start + r.length

\* Provenance of the bytes of an initial buffer, read off its ranges.
OriginOf(o) ==
    [k \in 1..o.len |->
        IF \E j \in 1..Len(o.ranges) : Covers(o.ranges[j], k - 1)
        THEN o.ranges[CHOOSE j \in 1..Len(o.ranges) : Covers(o.ranges[j], k - 1)].source
        ELSE "none"]

(* ------------------- external collaborators (interfaces) --------------- *)
\* get_tainted_object(obj, ctx_map): non-owning lookup, 0 when absent.
get_tainted_object(tmap, id) == tmap[id]

\* ctx_map->empty()
map_empty(tmap) == \A i \in Ids : tmap[i] = 0

\* initializer->allocate_tainted_object(from): a new, independently owned
\* record, seeded with a copy of from's ranges when from is given.
\* The new record's pointer is Len(h) + 1.
allocate_tainted_object(h, from) ==
    Append(h, IF from = 0 THEN <<>> ELSE h[from])

\* TaintedObject::add_ranges_shifted: appends every range of `ranges`,
\* start moved by offset, length and source kept, in order.
add_ranges_shifted(own, ranges, offset) ==
    own \o [i \in 1..Len(ranges) |->
               [start  |-> ranges[i].start + offset,
                length |-> ranges[i].length,
                source |-> ranges[i].source]]

\* set_tainted_object(obj, record, ctx_map): insert or replace the entry.
set_tainted_object(tmap, id, ptr) == [tmap EXCEPT ![id] = ptr]

(* ------------------------- api_extend_aspect --------------------------- *)
\* line 7: the call shape is rejected.
BadShapeArity(nargs, argsNull) == nargs < 2 \/ argsNull
BadShape(nargs, argsNull) == nargs # 2 \/ argsNull

\* bytearray.extend accepts the addition.
Compatible(b) == b \in ByteArrays

\* lines 17-19: candidate_text.extend(to_add); the returned object (NULL on
\* failure) is not looked at.  A rejected addition leaves the buffer as it was.
ExtendContent(cont, a, b) ==
    IF Compatible(b) THEN [cont EXCEPT ![a] = cont[a] \o cont[b]] ELSE cont

ExtendErr(b) == IF Compatible(b) THEN "none" ELSE "TypeError"

\* line 13: len_candidate_text, read before the extend call of line 18.
LenAfterExtend(before, after, a) == Len(after[a])
LenCandidateText(before, after, a) == Len(before[a])

\* line 21: not ctx_map or ctx_map->empty()
ShortCircuitNoMapOnly(active, tmap) == ~active
ShortCircuit(active, tmap) == ~active \/ map_empty(tmap)

\* lines 25-30: the heap after to_result (pointer Len(h) + 1) has been
\* allocated from to_candidate and, when to_toadd is set, extended with
\* to_toadd's ranges shifted by len_candidate_text.
ToResultUnseeded(h, to_candidate, to_toadd, len_candidate_text) ==
    LET h1 == allocate_tainted_object(h, 0)
        p  == Len(h1)
    IN  IF to_toadd # 0
        THEN [h1 EXCEPT ![p] = add_ranges_shifted(@, h1[to_toadd], len_candidate_text)]
        ELSE h1
ToResultUnshifted(h, to_candidate, to_toadd, len_candidate_text) ==
    LET h1 == allocate_tainted_object(h, to_candidate)
        p  == Len(h1)
    IN  IF to_toadd # 0
        THEN [h1 EXCEPT ![p] = add_ranges_shifted(@, h1[to_toadd], 0)]
        ELSE h1
ToResult(h, to_candidate, to_toadd, len_candidate_text) ==
    LET h1 == allocate_tainted_object(h, to_candidate)
        p  == Len(h1)
    IN  IF to_toadd # 0
        THEN [h1 EXCEPT ![p] = add_ranges_shifted(@, h1[to_toadd], len_candidate_text)]
        ELSE h1

\* line 31: the identity the result is stored under.
StoreKeyToAdd(a, b) == b
StoreKey(a, b) == a

\* ghost bookkeeping shared by the paths of the call
Snapshot(kind, nargs, argsNull, a, b) ==
    [kind |-> kind, nargs |-> nargs, argsNull |-> argsNull, a |-> a, b |-> b,
     content |-> content, taint_map |-> taint_map, heap |-> heap]

RangesAt(tmap, h, id) == IF tmap[id] = 0 THEN <<>> ELSE h[tmap[id]]

HistEntry(b) ==
    [b |-> b, rb |-> RangesAt(taint_map, heap, b), tainted |-> taint_map[b] # 0,
     lenb |-> Len(content[b]), ok |-> ExtendErr(b) = "none"]

Init ==
    \E active \in BOOLEAN :
    \E o \in [Ids -> UNION {ObjInit(i) : i \in Ids}] :
        /\ \A i \in Ids : o[i] \in ObjInit(i)
        /\ active \/ \A i \in Ids : ~o[i].has
        /\ content = [i \in Ids |-> [k \in 1..o[i].len |-> 10 * i + k]]
        /\ origin = [i \in Ids |-> OriginOf(o[i])]
        /\ ctx_active = active
        /\ taint_map = [i \in Ids |-> IF o[i].has THEN i ELSE 0]
        /\ heap = [i \in 1..3 |-> o[i].ranges]
        /\ result = "init"
        /\ err = "none"
        /\ map_ops = 0
        /\ calls = 0
        /\ last = [kind |-> "none", nargs |-> 0, argsNull |-> FALSE, a |-> 0, b |-> 0,
                   content |-> [i \in Ids |-> [k \in 1..o[i].len |-> 10 * i + k]],
                   taint_map |-> [i \in Ids |-> IF o[i].has THEN i ELSE 0],
                   heap |-> [i \in 1..3 |-> o[i].ranges]]
        /\ hist = [i \in Ids |-> <<>>]
        /\ base = [i \in Ids |-> [n0 |-> o[i].len, r0 |-> o[i].ranges]]

\* lines 7-10: wrong operand count or null operand list: return nullptr.
BadCall ==
    \E nargs \in NargsTried, argsNull \in BOOLEAN :
        /\ calls < MaxCalls
        /\ BadShape(nargs, argsNull)
        /\ result' = "NULL"
        /\ err' = "none"
        /\ map_ops' = 0
        /\ last' = Snapshot("bad", nargs, argsNull, 0, 0)
        /\ UNCHANGED <<content, origin, ctx_active, taint_map, heap, calls, hist, base>>

\* lines 12-23: the append, then no map or an empty map: return None.
ExtendNoTaint ==
    \E nargs \in NargsTried, argsNull \in BOOLEAN, a \in ByteArrays, b \in Ids :
        /\ calls < MaxCalls
        /\ ~BadShape(nargs, argsNull)
        /\ ShortCircuit(ctx_active, taint_map)
        /\ content' = ExtendContent(content, a, b)
        /\ origin' = ExtendContent(origin, a, b)
        /\ err' = ExtendErr(b)
        /\ result' = "None"
        /\ map_ops' = 0
        /\ calls' = calls + 1
        /\ last' = Snapshot("short", nargs, argsNull, a, b)
        /\ hist' = [hist EXCEPT ![a] = Append(@, HistEntry(b))]
        /\ UNCHANGED <<ctx_active, taint_map, heap, base>>

\* lines 12-32: the append, then the taint update on a non-empty map.
ExtendTaint ==
    \E nargs \in NargsTried, argsNull \in BOOLEAN, a \in ByteArrays, b \in Ids :
        /\ calls < MaxCalls
        /\ ~BadShape(nargs, argsNull)
        /\ ~ShortCircuit(ctx_active, taint_map)
        /\ LET after              == ExtendContent(content, a, b)
               len_candidate_text == LenCandidateText(content, after, a)
               to_candidate       == get_tainted_object(taint_map, a)
               to_toadd           == get_tainted_object(taint_map, b)
               h2                 == ToResult(heap, to_candidate, to_toadd,
                                              len_candidate_text)
           IN  /\ content' = after
               /\ heap' = h2
               /\ taint_map' = set_tainted_object(taint_map, StoreKey(a, b), Len(h2))
        /\ origin' = ExtendContent(origin, a, b)
        /\ err' = ExtendErr(b)
        /\ result' = "None"
        /\ map_ops' = 4
        /\ calls' = calls + 1
        /\ last' = Snapshot("full", nargs, argsNull, a, b)
        /\ hist' = [hist EXCEPT ![a] = Append(@, HistEntry(b))]
        /\ UNCHANGED <<ctx_active, base>>

Next == BadCall \/ ExtendNoTaint \/ ExtendTaint

Spec == Init /\ [][Next]_vars

(* ============================== claims ================================= *)
Called == last.kind \in {"short", "full"}

Entry(id) == RangesAt(taint_map, heap, id)
PreEntry(id) == RangesAt(last.taint_map, last.heap, id)
PreLen(id) == Len(last.content[id])

\* C1: when neither buffer A nor buffer B has a Tainting Map entry, whatever
\* the map holds otherwise, extend(A, B) leaves A = pre-call A ++ B and A
\* still has no entry.
C1_UntaintedStaysUntracked ==
    (Called /\ Compatible(last.b)
        /\ last.taint_map[last.a] = 0 /\ last.taint_map[last.b] = 0)
    => /\ content[last.a] = last.content[last.a] \o last.content[last.b]
       /\ taint_map[last.a] = 0

\* C2: when B has a record R_B, A's entry after the call is R_A (empty when
\* absent) followed by the ranges of R_B, in order, each with start raised
\* by the length A had before the append and length and source unchanged.
C2_ShiftedMerge ==
    (Called /\ last.taint_map[last.b] # 0)
    => /\ taint_map[last.a] # 0
       /\ LET e  == Entry(last.a)
              ra == PreEntry(last.a)
              rb == PreEntry(last.b)
              n  == PreLen(last.a)
          IN  /\ Len(e) = Len(ra) + Len(rb)
              /\ \A i \in 1..Len(ra) : e[i] = ra[i]
              /\ \A j \in 1..Len(rb) :
                    /\ e[Len(ra) + j].start = rb[j].start + n
                    /\ e[Len(ra) + j].length = rb[j].length
                    /\ e[Len(ra) + j].source = rb[j].source

C2_Witness ==
    /\ last.kind = "full"
    /\ last.a # last.b
    /\ Len(PreEntry(last.a)) >= 1
    /\ Len(PreEntry(last.b)) >= 1
    /\ PreLen(last.a) >= 1
    /\ Len(Entry(last.a)) >= 2

\* C3: when A is tainted and B has no entry, A's entry after the call is
\* R_A unchanged.
C3_UntaintedAdditionKeepsRanges ==
    (Called /\ last.taint_map[last.a] # 0 /\ last.taint_map[last.b] = 0)
    => /\ taint_map[last.a] # 0
       /\ Entry(last.a) = PreEntry(last.a)

C3_Witness ==
    /\ last.kind = "full"
    /\ last.taint_map[last.a] # 0
    /\ last.taint_map[last.b] = 0
    /\ Len(PreEntry(last.a)) >= 1
    /\ PreLen(last.b) >= 1
    /\ Len(content[last.a]) > PreLen(last.a)

\* Every call made so far returned with no exception pending.
AllReturned ==
    \A d \in Ids : \A i \in 1..Len(hist[d]) : hist[d][i].ok

WellFormedEntry(d) ==
    LET e == Entry(d)
        L == Len(content[d])
    IN  /\ \A i \in 1..Len(e) :
              e[i].start >= 0 /\ e[i].length >= 1 /\ e[i].start + e[i].length <= L
        /\ \A i \in 1..Len(e) : \A j \in 1..Len(e) :
              i < j => (e[i].start + e[i].length <= e[j].start
                        \/ e[j].start + e[j].length <= e[i].start)
        /\ \A pos \in 0..(L - 1) :
              (\E i \in 1..Len(e) : Covers(e[i], pos)) <=> origin[d][pos + 1] # "none"

\* C4: after any sequence of extend calls that returned normally, every
\* destination either has no entry (and holds no tainted byte) or has an
\* entry whose ranges do not overlap, lie inside the buffer's current length
\* and cover exactly the bytes that came from tainted bytes of an operand.
C4_RangesCoverTaintedBytes ==
    AllReturned =>
        \A d \in ByteArrays :
            hist[d] # <<>> =>
                IF taint_map[d] = 0
                THEN \A k \in 1..Len(content[d]) : origin[d][k] = "none"
                ELSE WellFormedEntry(d)

C4_Witness ==
    /\ AllReturned
    /\ \E d \in ByteArrays :
          /\ Len(hist[d]) >= 2
          /\ Len(Entry(d)) >= 2
          /\ \E k \in 1..Len(content[d]) : origin[d][k] = "none"
          /\ \E k \in 1..Len(content[d]) : origin[d][k] # "none"

\* C5: with no active map, or an active map without entries, extend makes
\* no lookup, allocation or store, leaves the map as it was, returns None,
\* and (for an appendable addition) A = pre-call A ++ B.
C5_NoMapNoMapOperation ==
    (Called /\ (~ctx_active \/ map_empty(last.taint_map)))
    => /\ map_ops = 0
       /\ taint_map = last.taint_map
       /\ heap = last.heap
       /\ result = "None"
       /\ Compatible(last.b) =>
             /\ content[last.a] = last.content[last.a] \o last.content[last.b]
             /\ err = "none"

C5_Witness ==
    /\ last.kind = "short"
    /\ ctx_active
    /\ map_empty(last.taint_map)
    /\ Compatible(last.b)
    /\ PreLen(last.b) >= 1
    /\ Len(content[last.a]) = PreLen(last.a) + PreLen(last.b)

\* C6: a call whose operand count is not two, or whose operand list is
\* null, returns the failure value and changes no buffer and no map entry.
C6_BadShapeNoEffect ==
    (last.kind # "none" /\ (last.nargs # 2 \/ last.argsNull))
    => /\ result = "NULL"
       /\ content = last.content
       /\ taint_map = last.taint_map
       /\ heap = last.heap
       /\ map_ops = 0

C6_Witness ==
    /\ last.kind = "bad"
    /\ last.nargs = 3
    /\ ~last.argsNull
    /\ ~map_empty(taint_map)
    /\ calls >= 1

\* C7: an addition that cannot be appended makes the call fail before any
\* change: failure value returned, content and every map entry as before.
C7_TypeMismatchNoEffect ==
    (Called /\ ~Compatible(last.b))
    => /\ result = "NULL"
       /\ content = last.content
       /\ taint_map = last.taint_map
       /\ heap = last.heap

\* C8: a call changes at most the entry of A: no record that existed before
\* the call is modified, and the entries of all other identities (B
\* included, when it is another object) are the same before and after.
C8_OnlyDestinationEntryChanges ==
    Called
    => /\ \A p \in 1..Len(last.heap) : heap[p] = last.heap[p]
       /\ \A i \in Ids \ {last.a} :
             /\ taint_map[i] = last.taint_map[i]
             /\ Entry(i) = PreEntry(i)

C8_Witness ==
    /\ last.kind = "full"
    /\ last.a # last.b
    /\ \A i \in Ids : last.taint_map[i] # 0 /\ Len(PreEntry(i)) >= 1
    /\ taint_map[last.a] # last.taint_map[last.a]
    /\ Entry(last.a) # PreEntry(last.a)

ShiftBy(ranges, n) ==
    [i \in 1..Len(ranges) |-> [ranges[i] EXCEPT !.start = @ + n]]

RECURSIVE ExpectedAfter(_, _, _)
ExpectedAfter(r, n, h) ==
    IF h = <<>> THEN r
    ELSE ExpectedAfter(r \o ShiftBy(Head(h).rb, n), n + Head(h).lenb, Tail(h))

\* C9: after k calls on one destination A with tainted, appendable
\* additions B_1..B_k, A's entry is R_A followed by R_B1 shifted by A's
\* initial length n0, R_B2 shifted by n0 + |B_1|, and so on in call order.
C9_EachCallShiftsByCurrentLength ==
    \A d \in ByteArrays :
        (hist[d] # <<>> /\ \A i \in 1..Len(hist[d]) : hist[d][i].tainted /\ hist[d][i].ok)
        => /\ taint_map[d] # 0
           /\ Entry(d) = ExpectedAfter(base[d].r0, base[d].n0, hist[d])

C9_Witness ==
    \E d \in ByteArrays :
        /\ Len(hist[d]) = 2
        /\ hist[d][1].b = hist[d][2].b
        /\ hist[d][1].b # d
        /\ hist[d][1].tainted /\ hist[d][2].tainted
        /\ hist[d][1].lenb >= 1
        /\ Len(hist[d][1].rb) >= 1
        /\ base[d].n0 >= 1
        /\ Len(base[d].r0) >= 1
        /\ Len(Entry(d)) = 3

\* C10: extend(A, A) on a tainted A of length n leaves A with length 2n and
\* the entry R_A followed by R_A shifted by n.
C10_SelfExtension ==
    (Called /\ last.a = last.b /\ last.taint_map[last.a] # 0)
    => LET ra == PreEntry(last.a)
           n  == PreLen(last.a)
           e  == Entry(last.a)
       IN  /\ Len(content[last.a]) = 2 * n
           /\ taint_map[last.a] # 0
           /\ Len(e) = 2 * Len(ra)
           /\ \A i \in 1..Len(ra) :
                 /\ e[i] = ra[i]
                 /\ e[Len(ra) + i] = [ra[i] EXCEPT !.start = ra[i].start + n]

C10_Witness ==
    /\ last.kind = "full"
    /\ last.a = last.b
    /\ Len(PreEntry(last.a)) >= 1
    /\ PreLen(last.a) >= 1
    /\ Len(Entry(last.a)) = 2 * Len(PreEntry(last.a))

====
